---------------------------- MODULE Spec2Model ----------------------------
(***************************************************************************)
(* SimpleTradingEnv (Thesis_Code_Final_Version_Ferid_Kendic.ipynb): the    *)
(* trading environment's reset/step state machine, its observation         *)
(* encoder, and the eval_agent episode runner that drives it.              *)
(*                                                                         *)
(* Units.  Money (cash, prices, rewards, portfolio values) is counted in   *)
(* cents, so that trade_penalty_factor = 0.01 per share is the integer 1.  *)
(* An action is the rational a / ActionDenom, carried as its numerator a.  *)
(* The float64 arithmetic of the portfolio is modelled exactly; the        *)
(* float32 cast of the observation is modelled by Float32.                 *)
(* Row i of the DataFrame (0-based, df.iloc[i]) is df[i + 1].              *)
(***************************************************************************)
EXTENDS Integers, Sequences, FiniteSets, TLC

VARIABLES
    df,                    \* self.df: the price series, a sequence of bars
    lookback,              \* self.lookback
    n_steps,               \* self.n_steps
    current_step,          \* self.current_step (the cursor)
    cash,                  \* self.cash
    stock_owned,           \* self.stock_owned
    initial_cash,          \* self.initial_cash
    trade_penalty_factor,  \* self.trade_penalty_factor
    lastCall,              \* the last method called: "__init__", "reset", "step"
    err,                   \* the exception the last call raised, or "none"
    obs,                   \* the observation the last call returned
    reward,                \* the reward the last step returned
    done,                  \* the done flag the last step returned
    raw_action,            \* step's local action before np.clip (numerator)
    action,                \* step's local: the clipped action (numerator)
    shares_traded,         \* step's local: shares_traded
    pc,                    \* the runner's position
    episode,               \* the runner's count of eval_agent calls begun
    n_calls,               \* the runner's count of step calls in this episode
    final_value,           \* eval_agent's final_value
    script,                \* the action sequence a scripted replay applies
    other,                 \* a second SimpleTradingEnv instance (a record of
                           \* the same fields), where the caller has one
    callee,                \* the instance the last call was made on (1, 2)
    rewards,               \* collect_rewards' list of rewards
    traded_total,          \* history: the shares traded since the last reset
    cash_left,             \* the Buy & Hold baseline's cash_left
    buy_hold_val           \* the Buy & Hold baseline's buy_hold_val

envVars == <<df, lookback, n_steps, current_step, cash, stock_owned,
             initial_cash, trade_penalty_factor>>
retVars == <<lastCall, err, obs, reward, done, raw_action, action, shares_traded>>
runVars == <<pc, episode, n_calls, final_value, script>>
baseVars == <<cash_left, buy_hold_val>>
auxVars == <<other, callee, rewards, traded_total, baseVars>>
vars == <<envVars, retVars, runVars, auxVars>>

---------------------------------------------------------------------------
(* Bounds of the model *)

MaxLookback == 2
MaxLen == 5
ActionDenom == 2

(* Program constants *)

InitialCash == 1000000
buy_hold_cash == 1000000
buy_hold_shares == 10
TradePenalty == 1
min_trade_amount == 1
Float32Bits == 24
EvalCalls == 2

---------------------------------------------------------------------------
(* Price series *)

Bar(o, h, l, c, s5, s20) ==
    [Open |-> o, High |-> h, Low |-> l, Close |-> c, SMA5 |-> s5, SMA20 |-> s20]

\* Two bars whose fields are pairwise different, with closes of 3000.00
\* (the initial cash buys 3 and keeps 1000.00) and 7000.00 (it buys 1; half
\* of that is below the minimum trade; what is left buys none).
Bars ==
    { Bar(290000, 310000, 280000, 300000, 305000, 295000),
      Bar(690000, 720000, 680000, 700000, 710000, 705000) }

\* A bar of a flat market: every price equal to c.
FlatBar(c) == Bar(c, c, c, c, c, c)

\* The bar of the flat market at 100.00
FlatBar100 == FlatBar(10000)

AllBars == Bars \cup {FlatBar100}

SeriesOfLen(n) == [1..n -> Bars]

\* df.iloc[i]
iloc(d, i) == d[i + 1]

\* df.iloc[a:b]: a slice, clipped to the frame as pandas clips it
ilocSlice(d, a, b) ==
    LET lo == IF a < 0 THEN 0 ELSE a
        hi == IF b > Len(d) THEN Len(d) ELSE b
    IN  [i \in 1..(IF hi > lo THEN hi - lo ELSE 0) |-> d[lo + i]]

close_at(d, i) == iloc(d, i).Close

---------------------------------------------------------------------------
(* float32 *)

RECURSIVE Pow2(_)
Pow2(n) == IF n <= 0 THEN 1 ELSE 2 * Pow2(n - 1)

\* 2^23 and 2^24: a float32 significand m has 2^23 <= m < 2^24
MinSignificand == Pow2(Float32Bits - 1)
MaxSignificand == Pow2(Float32Bits)

\* n / d rounded to the nearest integer, ties to even
RoundHalfEven(n, d) ==
    LET q == n \div d
        r == n % d
    IN  IF 2 * r < d THEN q
        ELSE IF 2 * r > d THEN q + 1
        ELSE IF q % 2 = 0 THEN q ELSE q + 1

\* The float32 nearest to (n / d) * 2^e, for n, d > 0: scale n / d into
\* [2^23, 2^24), round it to an integer, carry if the rounding reached 2^24.
RECURSIVE Normalize(_, _, _)
Normalize(n, d, e) ==
    IF n < d * MinSignificand THEN Normalize(2 * n, d, e - 1)
    ELSE IF n >= d * MaxSignificand THEN Normalize(n, 2 * d, e + 1)
    ELSE LET m0 == RoundHalfEven(n, d)
         IN  IF m0 = MaxSignificand THEN [m |-> MinSignificand, e |-> e + 1]
                                    ELSE [m |-> m0, e |-> e]

\* astype(np.float32) of the number num / den (den > 0): the nearest
\* float32, as [m, e] standing for m * 2^e with 2^23 <= |m| < 2^24 (or m = 0).
Float32(num, den) ==
    IF num = 0 THEN [m |-> 0, e |-> 0]
    ELSE IF num > 0 THEN Normalize(num, den, 0)
    ELSE LET r == Normalize(0 - num, den, 0) IN [m |-> 0 - r.m, e |-> r.e]

\* The prices of the bars of the model, and their float32 values (a table)
BarPrices ==
    UNION { {b.Open, b.High, b.Low, b.Close, b.SMA5, b.SMA20} : b \in AllBars }
F32Prices == [c \in BarPrices |-> Float32(c, 100)]

\* a money amount in cents, as float32 dollars
F32Money(c) == IF c \in BarPrices THEN F32Prices[c] ELSE Float32(c, 100)
\* a share count, as float32
F32Count(n) == Float32(n, 1)

---------------------------------------------------------------------------
(* SimpleTradingEnv._get_obs *)

ohlc(frame) ==
    [i \in 1..(4 * Len(frame)) |->
        LET row == frame[((i - 1) \div 4) + 1]
            col == (i - 1) % 4
        IN  F32Money(CASE col = 0 -> row.Open
                       [] col = 1 -> row.High
                       [] col = 2 -> row.Low
                       [] OTHER   -> row.Close)]

sma5(frame)  == [i \in 1..Len(frame) |-> F32Money(frame[i].SMA5)]
sma20(frame) == [i \in 1..Len(frame) |-> F32Money(frame[i].SMA20)]

\* (mutant of _get_obs: the window ends with the bar at the cursor)
_get_obsWithCurrent(d, lb, step, c, s) ==
    LET frame == ilocSlice(d, step - lb + 1, step + 1)
    IN  ohlc(frame) \o sma5(frame) \o sma20(frame)
          \o <<F32Money(c)>> \o <<F32Count(s)>>

_get_obs(d, lb, step, c, s) ==
    LET frame == ilocSlice(d, step - lb, step)
    IN  ohlc(frame) \o sma5(frame) \o sma20(frame)
          \o <<F32Money(c)>> \o <<F32Count(s)>>

---------------------------------------------------------------------------
(* SimpleTradingEnv.step: its pieces *)

RawActions == (0 - ActionDenom - 1)..(ActionDenom + 1)

\* float("inf"): above every finite action; float("-inf") is 0 - Inf
Inf == 1000 * ActionDenom

\* float("nan"): a value that no comparison with a number holds for
NaN == Inf + 1

IsNaN(a) == a = NaN

NonFiniteActions == {Inf, 0 - Inf, NaN}

\* (mutant of clip: the action is used as given)
clipNone(a) == a

\* np.clip(action, -1, 1), on numerators
clip(a) ==
    IF IsNaN(a) THEN a
    ELSE IF a > ActionDenom THEN ActionDenom
    ELSE IF a < 0 - ActionDenom THEN 0 - ActionDenom
    ELSE a

\* (mutant of abs: the sign is kept)
absNone(a) == a

\* abs(action)
abs(a) == IF a < 0 THEN 0 - a ELSE a

\* int(x) of the rational num / den: truncation toward zero
int(num, den) ==
    IF num >= 0 THEN num \div den ELSE 0 - ((0 - num) \div den)

\* (mutant of max_buy: the quotient rounded up)
max_buyCeil(c, price) == (c + price - 1) \div price

\* int(self.cash // price)
max_buy(c, price) == c \div price

\* (mutant of shares_bought: round(action * max_buy) in place of int)
shares_boughtRounded(a, c, price) ==
    (2 * a * max_buy(c, price) + ActionDenom) \div (2 * ActionDenom)

\* int(action * max_buy)
shares_bought(a, c, price) == int(a * max_buy(c, price), ActionDenom)

\* (mutant of shares_sold: every share is sold, whatever the fraction)
shares_soldAll(a, s) == s

\* int(abs(action) * self.stock_owned)
shares_sold(a, s) == int(abs(a) * s, ActionDenom)

\* (mutant of Trade: a buy costs one cent per share more than the price)
TradeCommission(a, c, s, price) ==
    IF ~IsNaN(a) /\ a > 0 THEN
        LET sb == shares_bought(a, c, price)
        IN  IF sb >= min_trade_amount
            THEN [cash |-> c - sb * price - sb, stock_owned |-> s + sb,
                  shares_traded |-> sb]
            ELSE [cash |-> c, stock_owned |-> s, shares_traded |-> 0]
    ELSE IF ~IsNaN(a) /\ a < 0 THEN
        LET ss == shares_sold(a, s)
        IN  IF ss >= min_trade_amount
            THEN [cash |-> c + ss * price, stock_owned |-> s - ss, shares_traded |-> ss]
            ELSE [cash |-> c, stock_owned |-> s, shares_traded |-> 0]
    ELSE [cash |-> c, stock_owned |-> s, shares_traded |-> 0]

\* The buy/sell logic: the portfolio after the trade and shares_traded
Trade(a, c, s, price) ==
    IF ~IsNaN(a) /\ a > 0 THEN
        LET sb == shares_bought(a, c, price)
        IN  IF sb >= min_trade_amount
            THEN [cash |-> c - sb * price, stock_owned |-> s + sb, shares_traded |-> sb]
            ELSE [cash |-> c, stock_owned |-> s, shares_traded |-> 0]
    ELSE IF ~IsNaN(a) /\ a < 0 THEN
        LET ss == shares_sold(a, s)
        IN  IF ss >= min_trade_amount
            THEN [cash |-> c + ss * price, stock_owned |-> s - ss, shares_traded |-> ss]
            ELSE [cash |-> c, stock_owned |-> s, shares_traded |-> 0]
    ELSE [cash |-> c, stock_owned |-> s, shares_traded |-> 0]

\* (mutant of IsDone: done one step later)
IsDoneLate(step, n) == step >= n

\* done = self.current_step >= self.n_steps - 1
IsDone(step, n) == step >= n - 1

\* (mutant of next_price: the close at the advanced cursor also when done,
\* the last row when the cursor is past it)
next_priceNoFallback(d, step, dn, price) ==
    close_at(d, IF step < Len(d) THEN step ELSE Len(d) - 1)

\* next_price = close at the advanced cursor if not done, else price
next_price(d, step, dn, price) ==
    IF ~dn THEN close_at(d, step) ELSE price

\* (mutant of Reward: the penalty is left out)
RewardNoPenalty(new_total_asset, prev_total_asset, penalty, traded) ==
    new_total_asset - prev_total_asset

\* reward = new_total_asset - prev_total_asset - penalty * shares_traded
Reward(new_total_asset, prev_total_asset, penalty, traded) ==
    new_total_asset - prev_total_asset - penalty * traded

---------------------------------------------------------------------------
(* SimpleTradingEnv: construction, reset, step *)

\* obs = self._get_obs(), read from the attributes as they are when a
\* method returns; a call that raised returns nothing
observed(e) ==
    IF e.err = "none" /\ e.lastCall \in {"reset", "step"}
    THEN [e EXCEPT !.obs = _get_obs(e.df, e.lookback, e.current_step,
                                    e.cash, e.stock_owned)]
    ELSE e

\* The instance the module's environment variables hold, as a record
Self ==
    [df |-> df, lookback |-> lookback, n_steps |-> n_steps,
     current_step |-> current_step, cash |-> cash, stock_owned |-> stock_owned,
     initial_cash |-> initial_cash, trade_penalty_factor |-> trade_penalty_factor,
     lastCall |-> lastCall, err |-> err, obs |-> obs, reward |-> reward,
     done |-> done, raw_action |-> raw_action, action |-> action,
     shares_traded |-> shares_traded]

\* The instance the module's environment variables hold is e
Holds(e) ==
    /\ df = e.df
    /\ lookback = e.lookback
    /\ n_steps = e.n_steps
    /\ current_step = e.current_step
    /\ cash = e.cash
    /\ stock_owned = e.stock_owned
    /\ initial_cash = e.initial_cash
    /\ trade_penalty_factor = e.trade_penalty_factor
    /\ lastCall = e.lastCall
    /\ err = e.err
    /\ obs = e.obs
    /\ reward = e.reward
    /\ done = e.done
    /\ raw_action = e.raw_action
    /\ action = e.action
    /\ shares_traded = e.shares_traded

\* ... and becomes e (e is evaluated once, as r; the observation, the
\* costly part, is compared last)
Assign(e) ==
    \E r \in {e} :
       /\ df' = r.df
       /\ lookback' = r.lookback
       /\ n_steps' = r.n_steps
       /\ current_step' = r.current_step
       /\ cash' = r.cash
       /\ stock_owned' = r.stock_owned
       /\ initial_cash' = r.initial_cash
       /\ trade_penalty_factor' = r.trade_penalty_factor
       /\ lastCall' = r.lastCall
       /\ err' = r.err
       /\ reward' = r.reward
       /\ done' = r.done
       /\ raw_action' = r.raw_action
       /\ action' = r.action
       /\ shares_traded' = r.shares_traded
       /\ obs' = observed(r).obs

\* __init__(df, lookback): the instance after construction
construct(d, lb, pen) ==
    [df |-> d, lookback |-> lb, n_steps |-> Len(d),
     current_step |-> lb, cash |-> InitialCash, stock_owned |-> 0,
     initial_cash |-> InitialCash, trade_penalty_factor |-> pen,
     lastCall |-> "__init__", err |-> "none", obs |-> <<>>, reward |-> 0,
     done |-> FALSE, raw_action |-> 0, action |-> 0, shares_traded |-> 0]

Constructed(d, lb, pen) == Holds(construct(d, lb, pen))

\* (mutant of ResetState: the shares are kept)
ResetStateKeepsShares(e) ==
    [current_step |-> e.lookback, cash |-> e.initial_cash,
     stock_owned |-> e.stock_owned]

\* reset(): the three fields it assigns
ResetState(e) ==
    [current_step |-> e.lookback, cash |-> e.initial_cash, stock_owned |-> 0]

\* reset(): what it assigns.  reward, action and shares_traded keep the
\* values of the last step; the caller's done is the caller's.
reset_state(e) ==
    LET r == ResetState(e)
    IN  [e EXCEPT !.current_step = r.current_step,
                  !.cash = r.cash,
                  !.stock_owned = r.stock_owned,
                  !.lastCall = "reset",
                  !.err = "none"]

\* reset(): what it assigns and returns
reset(e) == observed(reset_state(e))

\* step(action): what it assigns, and its reward and done.  When the
\* cursor is past the last row, df.iloc raises IndexError on the first
\* line of step, before anything is assigned.
step_state(e, a) ==
    IF e.current_step >= e.n_steps
    THEN [e EXCEPT !.lastCall = "step", !.err = "IndexError"]
    ELSE
       LET price == close_at(e.df, e.current_step)
           prev_total_asset == e.cash + e.stock_owned * price
           act == clip(a)
           t == Trade(act, e.cash, e.stock_owned, price)
           step2 == e.current_step + 1
           dn == IsDone(step2, e.n_steps)
           np == next_price(e.df, step2, dn, price)
           new_total_asset == t.cash + t.stock_owned * np
       IN  [e EXCEPT !.cash = t.cash,
                     !.stock_owned = t.stock_owned,
                     !.shares_traded = t.shares_traded,
                     !.raw_action = a,
                     !.action = act,
                     !.current_step = step2,
                     !.done = dn,
                     !.reward = Reward(new_total_asset, prev_total_asset,
                                       e.trade_penalty_factor, t.shares_traded),
                     !.lastCall = "step",
                     !.err = "none"]

\* step(action): what it assigns and returns
step(e, a) == observed(step_state(e, a))

\* env.reset() on the module's environment
ResetEnv == \E self \in {Self} : Assign(reset_state(self))

\* env.step(action) when df.iloc[self.current_step] exists
StepEnv(a) ==
    /\ current_step < n_steps
    /\ \E self \in {Self} : Assign(step_state(self, a))

\* env.step(action) when the cursor is past the last row
StepEnvRaises ==
    /\ current_step >= n_steps
    /\ \E self \in {Self} : Assign(step_state(self, 0))

\* The caller has one environment and keeps no list of rewards
NoOther == [lastCall |-> "absent"]

AuxInit ==
    /\ other = NoOther
    /\ callee = 1
    /\ rewards = <<>>
    /\ traded_total = 0
    /\ cash_left = 0
    /\ buy_hold_val = 0

---------------------------------------------------------------------------
(* Spec: any caller, any sequence of reset and step calls *)

Configs ==
    { <<d, lb>> \in (UNION {SeriesOfLen(n) : n \in 3..MaxLen}) \X (1..MaxLookback) :
        Len(d) >= lb + 2 }

Init ==
    /\ AuxInit
    /\ \E cfg \in Configs : Constructed(cfg[1], cfg[2], TradePenalty)
    /\ pc = "caller"
    /\ episode = 0
    /\ n_calls = 0
    /\ final_value = 0
    /\ script = <<>>

Reset ==
    /\ ResetEnv
    /\ UNCHANGED <<runVars, auxVars>>

Step ==
    /\ \E a \in RawActions : StepEnv(a)
    /\ UNCHANGED <<runVars, auxVars>>

StepRaises ==
    /\ StepEnvRaises
    /\ UNCHANGED <<runVars, auxVars>>

Next == Reset \/ Step \/ StepRaises

Spec == Init /\ [][Next]_vars

---------------------------------------------------------------------------
(* NonFiniteSpec: any caller, whose actions may also be inf, -inf or nan *)

StepNonFinite ==
    /\ \E a \in NonFiniteActions : StepEnv(a)
    /\ UNCHANGED <<runVars, auxVars>>

NonFiniteNext == Reset \/ Step \/ StepRaises \/ StepNonFinite

NonFiniteSpec == Init /\ [][NonFiniteNext]_vars

---------------------------------------------------------------------------
(* RunnerSpec: eval_agent(model, env), called EvalCalls times on the same  *)
(* environment (ppo, then a2c, on test_env); model.predict may return any  *)
(* action.  collect_rewards runs the same loop.                            *)

RunnerInit ==
    /\ AuxInit
    /\ \E cfg \in Configs : Constructed(cfg[1], cfg[2], TradePenalty)
    /\ pc = "call"
    /\ episode = 0
    /\ n_calls = 0
    /\ final_value = 0
    /\ script = <<>>

\* obs = env.reset(); done = False
EvalReset ==
    /\ pc \in {"call", "returned"}
    /\ episode < EvalCalls
    /\ \E self \in {Self} : Assign([reset_state(self) EXCEPT !.done = FALSE])
    /\ pc' = "loop"
    /\ episode' = episode + 1
    /\ n_calls' = 0
    /\ UNCHANGED <<final_value, script, auxVars>>

\* while not done: action = model.predict(obs); ... = env.step(action)
EvalStep ==
    /\ pc = "loop"
    /\ ~done
    /\ \E a \in RawActions : StepEnv(a)
    /\ n_calls' = n_calls + 1
    /\ UNCHANGED <<pc, episode, final_value, script, auxVars>>

\* (mutant of final_price: the close at the cursor)
final_priceAtCursor(e) == close_at(e.df, e.current_step)

\* final_price = env.df.iloc[env.current_step - 1]["Close"]
final_price(e) == close_at(e.df, e.current_step - 1)

\* final_value = env.cash + env.stock_owned * final_price
terminal_value(e) == e.cash + e.stock_owned * final_price(e)

\* final_value = ...; return final_value
EvalReturn ==
    /\ pc = "loop"
    /\ done
    /\ final_value' = terminal_value(Self)
    /\ pc' = "returned"
    /\ UNCHANGED <<envVars, retVars, episode, n_calls, script, auxVars>>

RunnerNext == EvalReset \/ EvalStep \/ EvalReturn

RunnerSpec == RunnerInit /\ [][RunnerNext]_vars /\ WF_vars(RunnerNext)

---------------------------------------------------------------------------
(* CollectSpec: collect_rewards(model, df) on the environment it has just  *)
(* built; model.predict may return any action.                             *)

CollectInit ==
    /\ AuxInit
    /\ \E cfg \in Configs : Constructed(cfg[1], cfg[2], TradePenalty)
    /\ pc = "collect"
    /\ episode = 0
    /\ n_calls = 0
    /\ final_value = 0
    /\ script = <<>>

\* obs = env.reset(); rewards = []; done = False
CollectReset ==
    /\ pc = "collect"
    /\ \E self \in {Self} : Assign([reset_state(self) EXCEPT !.done = FALSE])
    /\ rewards' = <<>>
    /\ traded_total' = 0
    /\ pc' = "collecting"
    /\ UNCHANGED <<episode, n_calls, final_value, script, other, callee, baseVars>>

\* while not done: ... = env.step(action); rewards.append(float(reward))
CollectStep ==
    /\ pc = "collecting"
    /\ ~done
    /\ \E a \in RawActions : StepEnv(a)
    /\ rewards' = Append(rewards, reward')
    /\ traded_total' = traded_total + shares_traded'
    /\ n_calls' = n_calls + 1
    /\ UNCHANGED <<pc, episode, final_value, script, other, callee, baseVars>>

\* return rewards
CollectReturn ==
    /\ pc = "collecting"
    /\ done
    /\ pc' = "collected"
    /\ UNCHANGED <<envVars, retVars, episode, n_calls, final_value, script, auxVars>>

CollectNext == CollectReset \/ CollectStep \/ CollectReturn

CollectSpec == CollectInit /\ [][CollectNext]_vars

---------------------------------------------------------------------------
(* Two instances.  Instance 1 is held by the module's environment          *)
(* variables, instance 2 by the record other.                              *)

\* (mutant of slot: the attributes belong to the class, all instances
\* read and write those of instance 1)
slotShared(i) == 1

\* self: a method called on instance i reads and writes the attributes
\* __init__ created on instance i
slot(i) == i

Inst(i) == IF slot(i) = 1 THEN Self ELSE other

\* Instance i becomes e and returns its observation
Put(i, e) ==
    IF slot(i) = 1
    THEN Assign(e) /\ UNCHANGED other
    ELSE other' = observed(e) /\ UNCHANGED <<envVars, retVars>>

\* reset() called on instance i
CallReset(i) ==
    /\ \E self \in {Inst(i)} : Put(i, reset_state(self))
    /\ callee' = i

\* step(a) called on instance i
CallStep(i, a) ==
    /\ \E self \in {Inst(i)} : Put(i, step_state(self, a))
    /\ callee' = i

---------------------------------------------------------------------------
(* TwinSpec: the same replay on two new environments, call by call: reset  *)
(* on both, then each action on both until the first is done, then the     *)
(* terminal value as eval_agent computes it.  The two series are the same  *)
(* up to the last bar, which may differ.                                   *)

TwinInit ==
    /\ \E cfg \in Configs, last \in Bars :
          /\ Constructed(cfg[1], cfg[2], TradePenalty)
          /\ other = construct([cfg[1] EXCEPT ![Len(cfg[1])] = last],
                               cfg[2], TradePenalty)
    /\ callee = 1
    /\ rewards = <<>>
    /\ traded_total = 0
    /\ cash_left = 0
    /\ buy_hold_val = 0
    /\ pc = "twin_reset1"
    /\ episode = 0
    /\ n_calls = 0
    /\ final_value = 0
    /\ script = <<>>

TwinReset ==
    /\ \/ pc = "twin_reset1" /\ CallReset(1) /\ pc' = "twin_reset2"
       \/ pc = "twin_reset2" /\ CallReset(2) /\ pc' = "twin_step1"
    /\ UNCHANGED <<episode, n_calls, final_value, script, rewards, traded_total, baseVars>>

\* the next action, on the first environment
TwinStep1 ==
    /\ pc = "twin_step1"
    /\ ~Inst(1).done
    /\ \E a \in RawActions :
          /\ CallStep(1, a)
          /\ script' = Append(script, a)
    /\ pc' = "twin_step2"
    /\ UNCHANGED <<episode, n_calls, final_value, rewards, traded_total, baseVars>>

\* the same action, on the second environment
TwinStep2 ==
    /\ pc = "twin_step2"
    /\ CallStep(2, script[Len(script)])
    /\ pc' = "twin_step1"
    /\ n_calls' = n_calls + 1
    /\ UNCHANGED <<episode, final_value, script, rewards, traded_total, baseVars>>

TwinReturn ==
    /\ pc = "twin_step1"
    /\ Inst(1).done
    /\ final_value' = terminal_value(Inst(1))
    /\ pc' = "twin_returned"
    /\ UNCHANGED <<envVars, retVars, episode, n_calls, script, auxVars>>

TwinNext == TwinReset \/ TwinStep1 \/ TwinStep2 \/ TwinReturn

TwinSpec == TwinInit /\ [][TwinNext]_vars

---------------------------------------------------------------------------
(* PairSpec: two environments built over the same series, with reset and   *)
(* step called on the one or the other in any order.                       *)

\* the shortest window, and the shortest series it can run on
PairConfigs == {cfg \in Configs : cfg[2] = 1 /\ Len(cfg[1]) = cfg[2] + 2}

PairInit ==
    /\ \E cfg \in PairConfigs :
          /\ Constructed(cfg[1], cfg[2], TradePenalty)
          /\ other = construct(cfg[1], cfg[2], TradePenalty)
    /\ callee = 1
    /\ rewards = <<>>
    /\ traded_total = 0
    /\ cash_left = 0
    /\ buy_hold_val = 0
    /\ pc = "pair"
    /\ episode = 0
    /\ n_calls = 0
    /\ final_value = 0
    /\ script = <<>>

PairReset ==
    /\ \E i \in {1, 2} : CallReset(i)
    /\ UNCHANGED <<runVars, rewards, traded_total, baseVars>>

PairStep ==
    /\ \E i \in {1, 2}, a \in RawActions : CallStep(i, a)
    /\ UNCHANGED <<runVars, rewards, traded_total, baseVars>>

PairNext == PairReset \/ PairStep

PairSpec == PairInit /\ [][PairNext]_vars

---------------------------------------------------------------------------
(* BuyHoldSpec: the Buy & Hold baseline, computed from test_df, the series *)
(* test_env was built on.                                                  *)

\* a bar at 1000.00: ten shares cost exactly buy_hold_cash
FlatBar1000 == FlatBar(buy_hold_cash \div buy_hold_shares)

\* bars of which ten shares are affordable (100.00, 1000.00) and bars of
\* which they are not
BuyHoldBars == AllBars \cup {FlatBar1000}

BuyHoldSeries == UNION {[1..n -> BuyHoldBars] : n \in 3..MaxLen}

BuyHoldInit ==
    /\ AuxInit
    /\ \E d \in BuyHoldSeries, lb \in 1..MaxLookback :
          /\ Len(d) >= lb + 2
          /\ Constructed(d, lb, TradePenalty)
    /\ pc = "baseline"
    /\ episode = 0
    /\ n_calls = 0
    /\ final_value = 0
    /\ script = <<>>

\* start_price = test_df["Close"].iloc[0]
start_price(d) == close_at(d, 0)

\* end_price = test_df["Close"].iloc[-1]
end_price(d) == close_at(d, Len(d) - 1)

\* total_cost = buy_hold_shares * start_price
total_cost(d) == buy_hold_shares * start_price(d)

\* cash_left = buy_hold_cash - total_cost if buy_hold_cash >= total_cost else 0
\* buy_hold_val = cash_left + buy_hold_shares * end_price
BuyHold ==
    /\ pc = "baseline"
    /\ cash_left' = IF buy_hold_cash >= total_cost(df)
                    THEN buy_hold_cash - total_cost(df)
                    ELSE 0
    /\ buy_hold_val' = cash_left' + buy_hold_shares * end_price(df)
    /\ pc' = "baseline_done"
    /\ UNCHANGED <<envVars, retVars, episode, n_calls, final_value, script,
                   other, callee, rewards, traded_total>>

BuyHoldNext == BuyHold

BuyHoldSpec == BuyHoldInit /\ [][BuyHoldNext]_vars

---------------------------------------------------------------------------
(* ScenarioSpec: a scripted replay on a flat market.  After reset, the     *)
(* actions of a fixed script are applied one after the other.              *)

FlatSeries(n) == [i \in 1..n |-> FlatBar100]

\* 7 or 8 bars with every price at 100.00
ScenarioSeries == {FlatSeries(n) : n \in {7, 8}}

\* trade_penalty_factor as __init__ sets it, or set to 0 by the test
Penalties == {0, TradePenalty}

\* scripts of six actions, each -1, 0 or 1
Scripts == [1..6 -> {0 - ActionDenom, 0, ActionDenom}]

ScenarioInit ==
    /\ AuxInit
    /\ \E d \in ScenarioSeries, lb \in 1..MaxLookback, pen \in Penalties :
          Constructed(d, lb, pen)
    /\ pc = "start"
    /\ episode = 0
    /\ n_calls = 0
    /\ final_value = 0
    /\ script \in Scripts

ScriptReset ==
    /\ pc = "start"
    /\ ResetEnv
    /\ pc' = "replay"
    /\ UNCHANGED <<episode, n_calls, final_value, script, auxVars>>

ScriptStep ==
    /\ pc = "replay"
    /\ n_calls < Len(script)
    /\ StepEnv(script[n_calls + 1])
    /\ n_calls' = n_calls + 1
    /\ UNCHANGED <<pc, episode, final_value, script, auxVars>>

ScriptStepRaises ==
    /\ pc = "replay"
    /\ n_calls < Len(script)
    /\ StepEnvRaises
    /\ pc' = "raised"
    /\ UNCHANGED <<episode, n_calls, final_value, script, auxVars>>

ScenarioNext == ScriptReset \/ ScriptStep \/ ScriptStepRaises

ScenarioSpec == ScenarioInit /\ [][ScenarioNext]_vars

---------------------------------------------------------------------------
(* How the properties below read a transition or a state *)

\* The transition is a step call that returned (the only one that moves the
\* cursor forward by one)
StepTaken == current_step' = current_step + 1

\* The last call was a step call that returned
StepReturned == lastCall = "step" /\ err = "none"

\* The environment is Terminated: a step returned done = true and no reset
\* happened since
Terminated == lastCall = "step" /\ done

---------------------------------------------------------------------------
(* C1: in every state reachable from construction by any sequence of reset *)
(* and step calls with any actions, cash >= 0 and stock_owned >= 0: a buy  *)
(* never spends more than the cash, a sell never sells more shares than    *)
(* are owned.                                                              *)
C1_NoMarginNoShorting == cash >= 0 /\ stock_owned >= 0

\* A sell of everything owned has just returned, at a gain
C1_Witness ==
    /\ StepReturned
    /\ action = 0 - ActionDenom
    /\ shares_traded > 0
    /\ stock_owned = 0
    /\ cash > InitialCash

(* C2: a step call on a Terminated environment fails with                  *)
(* InvalidStateError: it executes no trade, does not advance the cursor,   *)
(* and returns no reward.                                                  *)
C2_TerminatedStepFails ==
    [][(Terminated /\ lastCall' = "step")
          => /\ err' = "InvalidStateError"
             /\ UNCHANGED <<cash, stock_owned, current_step, reward>>]_vars

(* C3: the done flag a step call returns is true exactly when the cursor   *)
(* after the increment equals n_steps - 1.                                 *)
C3_DoneExactlyAtLastIndex ==
    StepReturned => (done <=> current_step = n_steps - 1)

(* C4: an episode runner that calls reset once and then step until done,   *)
(* with any action at every step, terminates, and has then made exactly    *)
(* n_steps - lookback - 1 step calls.                                      *)
C4_EpisodeLength ==
    /\ [](pc \in {"call", "loop"} => <>(pc = "returned"))
    /\ [](pc = "returned" => n_calls = n_steps - lookback - 1)

\* An episode of at least three steps has ended
C4_Witness ==
    /\ pc = "returned"
    /\ n_calls = n_steps - lookback - 1
    /\ n_calls >= 3

(* C5: for every step, reward = new_value - prev_value - penalty * traded, *)
(* with prev_value = cash + shares * close at the cursor, both before the  *)
(* call, new_value = cash + shares after the call * next_price, and traded *)
(* the number of shares bought or sold by the call.                        *)
C5_RewardIdentity ==
    [][StepTaken =>
        LET price      == close_at(df, current_step)
            prev_value == cash + stock_owned * price
            nextp      == IF done' THEN price ELSE close_at(df, current_step')
            new_value  == cash' + stock_owned' * nextp
            traded     == abs(stock_owned' - stock_owned)
        IN  /\ shares_traded' = traded
            /\ reward' = new_value - prev_value - trade_penalty_factor * traded
      ]_vars

\* A step that traded, was not the last, and saw the price move
C5_Witness ==
    /\ StepReturned
    /\ ~done
    /\ shares_traded > 0
    /\ stock_owned > 0
    /\ close_at(df, current_step) # close_at(df, current_step - 1)
    /\ reward # 0

(* C6: reset, from any reachable state, leaves cash = the initial cash,    *)
(* stock_owned = 0 and the cursor = lookback, and returns the observation  *)
(* of a fresh environment; so a second reset changes nothing.              *)
C6_ResetRestores ==
    lastCall = "reset" =>
        /\ cash = InitialCash
        /\ stock_owned = 0
        /\ current_step = lookback
        /\ obs = _get_obs(df, lookback, lookback, InitialCash, 0)

\* reset was called on a Terminated environment whose last step traded
C6_Witness ==
    /\ lastCall = "reset"
    /\ done
    /\ shares_traded > 0

(* C7: the terminal valuation the episode runner computes equals           *)
(* cash + stock_owned * the close at the environment's cursor at           *)
(* termination.                                                            *)
C7_TerminalValuation ==
    pc = "returned" =>
        final_value = cash + stock_owned * close_at(df, current_step)

(* C8: on 8 bars with close 100, lookback 2, initial cash 10000 and        *)
(* penalty 0, the actions 1, 1, -1, 0, 1, -1 after reset give: step 1 buys *)
(* 100 shares and leaves cash 0; step 2 trades nothing; step 3 sells 100   *)
(* shares and cash is 10000 again; every reward is 0; the final portfolio  *)
(* value is 10000.                                                         *)
IsScenario ==
    /\ df = FlatSeries(8)
    /\ lookback = 2
    /\ initial_cash = InitialCash
    /\ trade_penalty_factor = 0
    /\ script = <<ActionDenom, ActionDenom, 0 - ActionDenom, 0,
                  ActionDenom, 0 - ActionDenom>>

C8_Scenario ==
    (IsScenario /\ pc # "start") =>
        /\ err = "none" /\ pc = "replay"
        /\ n_calls >= 1 => reward = 0
        /\ n_calls = 1 => shares_traded = 100 /\ stock_owned = 100 /\ cash = 0
        /\ n_calls = 2 => shares_traded = 0 /\ stock_owned = 100 /\ cash = 0
        /\ n_calls = 3 =>
              shares_traded = 100 /\ stock_owned = 0 /\ cash = InitialCash
        /\ n_calls = Len(script) =>
              cash + stock_owned * FlatBar100.Close = InitialCash

\* The scenario has been replayed to its sixth action
C8_Witness == IsScenario /\ n_calls = Len(script) /\ StepReturned

(* C9: the cursor is lookback after construction and after every reset,    *)
(* grows by exactly 1 on every step call, and in every reachable state     *)
(* lookback <= cursor <= n_steps - 1.                                      *)
C9_CursorInRange ==
    /\ lastCall \in {"__init__", "reset"} => current_step = lookback
    /\ lookback <= current_step
    /\ current_step <= n_steps - 1

\* floor(n / d) for d > 0: the k with k * d <= n < (k + 1) * d, searched
\* from k upwards (n >= k * d) or downwards (n < k * d)
RECURSIVE FloorFrom(_, _, _)
FloorFrom(n, d, k) ==
    IF n < k * d THEN FloorFrom(n, d, k - 1)
    ELSE IF n >= (k + 1) * d THEN FloorFrom(n, d, k + 1)
    ELSE k

Floor(n, d) == FloorFrom(n, d, 0)

(* C10: a step with clipped action > 0 computes                            *)
(* shares = floor(action * floor(cash / price)) at the close of the        *)
(* cursor; if shares >= min_trade_amount, cash falls by shares * price,    *)
(* stock_owned grows by shares and shares_traded = shares.  With           *)
(* action = 1 it buys floor(cash / price) and leaves cash < price.         *)
C10_Buy ==
    [][(StepTaken /\ action' > 0) =>
        LET price == close_at(df, current_step)
            q  == Floor(cash, price)
            \* the action is action' / ActionDenom
            sb == Floor(action' * q, ActionDenom)
        IN  /\ sb >= min_trade_amount =>
                /\ cash' = cash - sb * price
                /\ stock_owned' = stock_owned + sb
                /\ shares_traded' = sb
            /\ action' = ActionDenom =>
                /\ stock_owned' = stock_owned + q
                /\ cash' < price
      ]_vars

\* A buy with action 1 that bought, and left less than the price in cash
C10_Witness ==
    /\ StepReturned
    /\ action = ActionDenom
    /\ shares_traded > 1
    /\ cash > 0
    /\ cash < close_at(df, current_step - 1)

(* C11: a step with clipped action < 0 computes                             *)
(* shares = floor(|action| * stock_owned); if shares >= min_trade_amount,  *)
(* cash grows by shares * price (the close at the cursor), stock_owned     *)
(* falls by shares and shares_traded = shares.  With action = -1 and       *)
(* stock_owned >= min_trade_amount it sells every share.                   *)
C11_Sell ==
    [][(StepTaken /\ action' < 0) =>
        LET price == close_at(df, current_step)
            \* the action is action' / ActionDenom
            ss == Floor((0 - action') * stock_owned, ActionDenom)
        IN  /\ ss >= min_trade_amount =>
                /\ cash' = cash + ss * price
                /\ stock_owned' = stock_owned - ss
                /\ shares_traded' = ss
            /\ (action' = 0 - ActionDenom /\ stock_owned >= min_trade_amount) =>
                /\ stock_owned' = 0
                /\ shares_traded' = stock_owned
      ]_vars

\* A sell of a part of the shares: some were sold and some are left
C11_Witness ==
    /\ StepReturned
    /\ action < 0
    /\ action > 0 - ActionDenom
    /\ shares_traded > 0
    /\ stock_owned > 0

C14_TerminalFallback ==
    [][StepTaken =>
        LET price == close_at(df, current_step)
        IN  /\ done' =>
                reward' = 0 - trade_penalty_factor * shares_traded'
            /\ ~done' =>
                reward' = (cash' + stock_owned' * close_at(df, current_step'))
                          - (cash + stock_owned * price)
                          - trade_penalty_factor * shares_traded'
      ]_vars

\* The step that ended an episode left shares in the portfolio, and the
\* last bar closes at another price than the bar the step read
C14_Witness ==
    /\ StepReturned
    /\ done
    /\ current_step = n_steps - 1
    /\ stock_owned > 0
    /\ close_at(df, current_step) # close_at(df, current_step - 1)

(* C17: every observation returned by reset or step (the step that returns *)
(* done = true too) has length 6 * lookback + 2 and holds, for the bars    *)
(* [cursor - lookback, cursor) at the cursor after the call: open, high,   *)
(* low, close of each bar in order, then the SMA5 values, then the SMA20   *)
(* values, then cash and stock_owned as they are after the call (each as   *)
(* its float32).                                                           *)
C17_Observation ==
    (lastCall = "reset" \/ StepReturned) =>
        /\ Len(obs) = 6 * lookback + 2
        /\ \A k \in 1..lookback :
              LET bar == iloc(df, current_step - lookback + k - 1)
              IN  /\ obs[4 * (k - 1) + 1] = Float32(bar.Open, 100)
                  /\ obs[4 * (k - 1) + 2] = Float32(bar.High, 100)
                  /\ obs[4 * (k - 1) + 3] = Float32(bar.Low, 100)
                  /\ obs[4 * (k - 1) + 4] = Float32(bar.Close, 100)
                  /\ obs[4 * lookback + k] = Float32(bar.SMA5, 100)
                  /\ obs[5 * lookback + k] = Float32(bar.SMA20, 100)
        /\ obs[6 * lookback + 1] = Float32(cash, 100)
        /\ obs[6 * lookback + 2] = Float32(stock_owned, 1)

\* The observation of the step that ended an episode, after a trade, with
\* a window of two bars that differ
C17_Witness ==
    /\ StepReturned
    /\ done
    /\ current_step = n_steps - 1
    /\ shares_traded > 0
    /\ lookback = 2
    /\ iloc(df, current_step - 1) # iloc(df, current_step - 2)

\* clamp(a, -1, 1) on numerators, written with min and max
Min(x, y) == IF x <= y THEN x ELSE y
Max(x, y) == IF x >= y THEN x ELSE y
Clamp(a) == Max(0 - ActionDenom, Min(ActionDenom, a))

\* Two instances agree in everything but the action argument they were given
SameOutcome(e1, e2) ==
    [e1 EXCEPT !.raw_action = 0] = [e2 EXCEPT !.raw_action = 0]

(* C13: the action step uses is clamp(a, -1, 1): from the same state,      *)
(* step(a) with a > 1 gives the same next state, observation, reward and   *)
(* done as step(1), and step(a) with a < -1 the same as step(-1).          *)
C13_Clamp ==
    [][StepTaken =>
        /\ action' = Clamp(raw_action')
        /\ raw_action' > ActionDenom =>
              SameOutcome(Self', step(Self, ActionDenom))
        /\ raw_action' < 0 - ActionDenom =>
              SameOutcome(Self', step(Self, 0 - ActionDenom))
      ]_vars

\* A step with an action above 1 bought shares
C13_Witness ==
    /\ StepReturned
    /\ raw_action > ActionDenom
    /\ shares_traded > 0
    /\ stock_owned > 0

(* C18: step called with a non-finite action (nan, inf, -inf) fails with   *)
(* InvalidInputError and leaves cash, stock_owned and the cursor           *)
(* unchanged; it is neither clamped nor treated as a step without trade.   *)
(* (The call is one that gets past the read of the row at the cursor.)     *)
C18_NonFiniteRejected ==
    [][(/\ lastCall' = "step"
        /\ raw_action' \in NonFiniteActions
        /\ current_step < n_steps)
        => /\ err' = "InvalidInputError"
           /\ UNCHANGED <<cash, stock_owned, current_step>>
      ]_vars

\* The sum of a list of numbers
RECURSIVE SumSeq(_)
SumSeq(q) == IF q = <<>> THEN 0 ELSE Head(q) + SumSeq(Tail(q))

(* C19: over a complete episode (reset, then step until done) the rewards  *)
(* sum to (cash + stock_owned * close of bar n_steps - 2, where the last   *)
(* step traded) - initial_cash - trade_penalty_factor * (shares traded     *)
(* over the episode); and every step's reward is                           *)
(* stock_owned after the trade * (next_price - price)                      *)
(* - trade_penalty_factor * shares_traded.                                 *)
C19_Telescoping ==
    /\ [](pc = "collected" =>
            SumSeq(rewards) =
                (cash + stock_owned * close_at(df, n_steps - 2))
                - initial_cash - trade_penalty_factor * traded_total)
    /\ [][StepTaken =>
            LET price == close_at(df, current_step)
                nextp == IF done' THEN price ELSE close_at(df, current_step')
            IN  reward' = stock_owned' * (nextp - price)
                          - trade_penalty_factor * shares_traded'
         ]_vars

\* A complete episode of at least two steps that traded and ended with
\* shares, on a series whose last two closes differ
C19_Witness ==
    /\ pc = "collected"
    /\ Len(rewards) >= 2
    /\ traded_total > 0
    /\ stock_owned > 0
    /\ close_at(df, n_steps - 1) # close_at(df, n_steps - 2)

SameButLast(d1, d2) ==
    /\ Len(d1) = Len(d2)
    /\ \A i \in 1..(Len(d1) - 1) : d1[i] = d2[i]

(* C20: on two series that differ only in their last bar, reset and then   *)
(* step until done with the same actions return the same observations,     *)
(* rewards and done flags, leave the same cash and stock_owned, and        *)
(* eval_agent's terminal value is the same.                                *)
C20_LastBarUnused ==
    (pc \in {"twin_step1", "twin_returned"} /\ SameButLast(df, other.df)) =>
        /\ obs = other.obs
        /\ reward = other.reward
        /\ done = other.done
        /\ cash = other.cash
        /\ stock_owned = other.stock_owned
        /\ pc = "twin_returned" =>
              final_value = other.cash + other.stock_owned
                              * close_at(other.df, other.n_steps - 2)

\* Both replays are complete and hold shares, and the last bars differ in
\* every price
C20_Witness ==
    /\ pc = "twin_returned"
    /\ stock_owned > 0
    /\ shares_traded > 0
    /\ iloc(df, n_steps - 1).Close # iloc(other.df, n_steps - 1).Close
    /\ iloc(df, n_steps - 1).Open # iloc(other.df, n_steps - 1).Open

(* C21: the Buy & Hold baseline buys its 10 shares at the first close of   *)
(* the test series only if 10000 cash can afford them, and its final value *)
(* is the cash left after the purchase plus the shares held valued at the  *)
(* last close; when the purchase is not affordable no shares are held and  *)
(* the cash is kept.                                                       *)
C21_BuyHold ==
    pc = "baseline_done" =>
        LET first_close == iloc(df, 0).Close
            last_close == iloc(df, n_steps - 1).Close
            cost == 10 * first_close
            affordable == cost <= buy_hold_cash
            held == IF affordable THEN 10 ELSE 0
            kept == IF affordable THEN buy_hold_cash - cost ELSE buy_hold_cash
        IN  buy_hold_val = kept + held * last_close

=============================================================================
